---------------------------- MODULE Spec2Model ----------------------------
(***************************************************************************)
(* The Ukrainian dative heuristics of make_medals.py: split_fullname,      *)
(* guess_gender_from_patronymic, dative_first_name, dative_surname,        *)
(* dative_patronymic and to_dative_fullname.                               *)
(*                                                                         *)
(* A Python str is a sequence of Unicode code points (natural numbers), so *)
(* that str.lower(), str.islower(), str.strip() and str.split() are        *)
(* computed on the characters and are not the identity.  None and the      *)
(* exceptions are one-element sequences holding a negative number: no str  *)
(* holds a negative code point, so they differ from every str.             *)
(***************************************************************************)
EXTENDS Integers, Sequences, FiniteSets

VARIABLES
    pc,       \* position of the running call
    fn,       \* the function that was called
    arg,      \* its str argument (None is allowed for guess_gender_from_patronymic)
    garg,     \* its gender argument, for dative_surname and dative_patronymic
    s,        \* to_dative_fullname: local s (surname)
    n,        \* to_dative_fullname: local n (given name)
    p,        \* to_dative_fullname: local p (patronymic)
    gender,   \* to_dative_fullname: local gender
    out,      \* to_dative_fullname: local list out
    ret,      \* the returned value, or the exception raised
    stdout,   \* what has been written to sys.stdout
    first,    \* the result of the first call, once it is passed to a second
    mpc,      \* where main is: "off" while no main runs
    HAS_COMPOSER,  \* whether docxcompose could be imported
    separate, \* args.separate
    names,    \* the names read from the spreadsheet
    gsf_i,    \* i, the index of the loop of generate_separate_files
    out_dir,  \* the files of the directory args.out_dir: file name -> content
    output,   \* the document at args.output: the merged documents, in order
    pages     \* the page count of the "Done." line of single-file mode

mainvars == <<mpc, HAS_COMPOSER, separate, names, gsf_i, out_dir, output, pages>>

vars == <<pc, fn, arg, garg, s, n, p, gender, out, ret, stdout, first, mainvars>>

----------------------------------------------------------------------------
(* Python values *)

None == << -1 >>
IndexError == << -2 >>
UnicodeEncodeError == << -3 >>
Exceptions == {IndexError, UnicodeEncodeError}

\* bool(x) of a str or None: None and "" are falsy
Truthy(x) == x # None /\ x # << >>

\* The letters the rules name, as code points.
c_a == 1072    \* "а"
c_e == 1077    \* "е"
c_ye == 1108   \* "є"
c_y == 1080    \* "и"
c_i == 1110    \* "і"
c_yi == 1111   \* "ї"
c_o == 1086    \* "о"
c_u == 1091    \* "у"
c_yu == 1102   \* "ю"
c_ya == 1103   \* "я"
c_j == 1081    \* "й"
c_soft == 1100 \* "ь"
c_v == 1074    \* "в"
c_ch == 1095   \* "ч"
c_l == 1083    \* "л"
c_n == 1085    \* "н"
c_k == 1082    \* "к"
c_space == 32  \* " "

\* VOWELS without "е"
VOWELS_m == {c_a, c_ye, c_y, c_i, c_yi, c_o, c_u, c_yu, c_ya}

\* VOWELS without "у"
VOWELS_u == {c_a, c_e, c_ye, c_y, c_i, c_yi, c_o, c_yu, c_ya}

VOWELS == {c_a, c_e, c_ye, c_y, c_i, c_yi, c_o, c_u, c_yu, c_ya}

\* str.lower() of one character: Latin A-Z, Cyrillic U+0400-U+042F, U+0490
lower_ch(c) ==
    IF c \in 65..90 THEN c + 32
    ELSE IF c \in 1040..1071 THEN c + 32
    ELSE IF c \in 1024..1039 THEN c + 80
    ELSE IF c = 1168 THEN 1169
    ELSE c

\* str.upper() of one character
upper_ch(c) ==
    IF c \in 97..122 THEN c - 32
    ELSE IF c \in 1072..1103 THEN c - 32
    ELSE IF c \in 1104..1119 THEN c - 80
    ELSE IF c = 1169 THEN 1168
    ELSE c

\* str.islower() of one character: a cased character in lowercase
islower_ch(c) == c \in (97..122) \cup (1072..1119) \cup {1169}

\* str.isupper() of one character
isupper_ch(c) == c \in (65..90) \cup (1024..1071) \cup {1168}

\* the characters str.strip() and str.split() treat as whitespace
isspace_ch(c) == c \in (9..13) \cup (28..32) \cup {133, 160}

lower(str) == [i \in 1..Len(str) |-> lower_ch(str[i])]

upper(str) == [i \in 1..Len(str) |-> upper_ch(str[i])]

\* str.capitalize(): first character upper, the rest lower
capitalize(str) ==
    [i \in 1..Len(str) |-> IF i = 1 THEN upper_ch(str[i]) ELSE lower_ch(str[i])]

endswith(str, suf) ==
    /\ Len(str) >= Len(suf)
    /\ SubSeq(str, Len(str) - Len(suf) + 1, Len(str)) = suf

\* str[:-1]
DropLast(str) == SubSeq(str, 1, Len(str) - 1)

\* str[-1] of a non-empty str
LastCh(str) == str[Len(str)]

SetMin(S) == CHOOSE x \in S : \A y \in S : x <= y

SetMax(S) == CHOOSE x \in S : \A y \in S : x >= y

\* str.strip(): leading and trailing whitespace removed
strip(str) ==
    LET keep == {i \in 1..Len(str) : ~isspace_ch(str[i])}
    IN  IF keep = {} THEN << >> ELSE SubSeq(str, SetMin(keep), SetMax(keep))

\* str.split(): the maximal runs of non-whitespace characters, from position i
RECURSIVE split_from(_, _)
split_from(str, i) ==
    IF i > Len(str) THEN << >>
    ELSE IF isspace_ch(str[i]) THEN split_from(str, i + 1)
    ELSE LET j == SetMin({k \in i..Len(str) :
                             k = Len(str) \/ isspace_ch(str[k + 1])})
         IN  <<SubSeq(str, i, j)>> \o split_from(str, j + 1)

split(str) == split_from(str, 1)

\* " ".join(list)
RECURSIVE join(_)
join(list) ==
    IF list = << >> THEN << >>
    ELSE IF Len(list) = 1 THEN list[1]
    ELSE list[1] \o <<c_space>> \o join(Tail(list))

----------------------------------------------------------------------------
(* The heuristics *)

_endswith_any(str, suffixes) ==
    LET hits == {i \in 1..Len(suffixes) : endswith(str, suffixes[i])}
    IN  IF hits = {} THEN None ELSE suffixes[SetMin(hits)]

_is_vowel(ch) == lower_ch(ch) \in VOWELS

\* the suffix case decided by the first character of the word: word[0].islower()
CaseLike_m(word, add, ADD) == IF islower_ch(word[1]) THEN add ELSE ADD

\* ("x" if word[-1].islower() else "X"), add.capitalize(), add.upper()
CaseLike(word, add, ADD) == IF islower_ch(LastCh(word)) THEN add ELSE ADD

\* dative_first_name without its "й" row
dative_first_name_m(name) ==
    LET nn == strip(name)
        low == lower(nn)
    IN  IF ~Truthy(nn) THEN nn
        ELSE IF endswith(low, <<c_a>>)
            THEN DropLast(nn) \o (IF islower_ch(LastCh(nn)) THEN <<c_i>> ELSE <<upper_ch(c_i)>>)
        ELSE IF endswith(low, <<c_ya>>)
            THEN DropLast(nn) \o (IF islower_ch(LastCh(nn)) THEN <<c_yi>> ELSE <<upper_ch(c_yi)>>)
        ELSE IF endswith(low, <<c_o>>)
            THEN DropLast(nn) \o (IF islower_ch(LastCh(nn)) THEN <<c_o, c_v, c_i>>
                                  ELSE capitalize(<<c_o, c_v, c_i>>))
        ELSE IF ~(lower_ch(LastCh(low)) \in VOWELS) \/ endswith(low, <<c_soft>>)
            THEN nn \o (IF islower_ch(LastCh(nn)) THEN <<c_o, c_v, c_i>>
                        ELSE capitalize(<<c_o, c_v, c_i>>))
        ELSE nn

dative_first_name(name) ==
    LET nn == strip(name)
        low == lower(nn)
    IN  IF ~Truthy(nn) THEN nn
        ELSE IF endswith(low, <<c_a>>)
            THEN DropLast(nn) \o CaseLike(nn, <<c_i>>, <<upper_ch(c_i)>>)
        ELSE IF endswith(low, <<c_ya>>)
            THEN DropLast(nn) \o CaseLike(nn, <<c_yi>>, <<upper_ch(c_yi)>>)
        ELSE IF endswith(low, <<c_j>>)
            THEN DropLast(nn) \o CaseLike(nn, <<c_yu>>, <<upper_ch(c_yu)>>)
        ELSE IF endswith(low, <<c_o>>)
            THEN DropLast(nn) \o CaseLike(nn, <<c_o, c_v, c_i>>,
                                          capitalize(<<c_o, c_v, c_i>>))
        ELSE IF low = << >> THEN IndexError
        ELSE IF ~_is_vowel(LastCh(low)) \/ endswith(low, <<c_soft>>)
            THEN nn \o CaseLike(nn, <<c_o, c_v, c_i>>,
                                capitalize(<<c_o, c_v, c_i>>))
        ELSE nn

male_suf ==
    << <<c_o, c_v, c_y, c_ch>>, <<c_j, c_o, c_v, c_y, c_ch>>,
       <<c_e, c_v, c_y, c_ch>>, <<c_l, c_soft, c_o, c_v, c_y, c_ch>>,
       <<c_ye, c_v, c_y, c_ch>> >>

\* fem_suf without "євна"
fem_suf_m ==
    << <<c_i, c_v, c_n, c_a>>, <<c_yi, c_v, c_n, c_a>>,
       <<c_e, c_v, c_n, c_a>>, <<c_yi, c_v, c_n, c_a>> >>

fem_suf ==
    << <<c_i, c_v, c_n, c_a>>, <<c_yi, c_v, c_n, c_a>>,
       <<c_e, c_v, c_n, c_a>>, <<c_yi, c_v, c_n, c_a>>,
       <<c_ye, c_v, c_n, c_a>> >>

str_f == <<102>>

str_m == <<109>>

dative_patronymic(pp, gen) ==
    IF ~Truthy(pp) THEN << >>
    ELSE LET low == lower(pp)
         IN  IF Truthy(_endswith_any(low, male_suf))
                 THEN pp \o CaseLike(pp, <<c_u>>, <<upper_ch(c_u)>>)
             ELSE IF Truthy(_endswith_any(low, fem_suf))
                 THEN DropLast(pp) \o CaseLike(pp, <<c_i>>, <<upper_ch(c_i)>>)
             ELSE IF gen = str_f
                 THEN IF endswith(low, <<c_a>>)
                          THEN DropLast(pp) \o CaseLike(pp, <<c_i>>, <<upper_ch(c_i)>>)
                      ELSE IF endswith(low, <<c_ya>>)
                          THEN DropLast(pp) \o CaseLike(pp, <<c_yi>>, <<upper_ch(c_yi)>>)
                      ELSE pp
             ELSE IF low = << >> THEN IndexError
             ELSE IF \/ ~_is_vowel(LastCh(low))
                     \/ endswith(low, <<c_soft>>)
                     \/ endswith(low, <<c_j>>)
                 THEN pp \o CaseLike(pp, <<c_u>>, upper(<<c_u>>))
             ELSE pp

\* dative_surname leaving the surname of a woman as it is
dative_surname_m(surname, gen) ==
    LET ss == strip(surname)
        low == lower(ss)
    IN  IF ~Truthy(ss) \/ gen = <<102>> THEN ss
        ELSE IF endswith(low, <<c_o>>)
            THEN DropLast(ss) \o (IF islower_ch(LastCh(ss)) THEN <<c_u>> ELSE <<upper_ch(c_u)>>)
        ELSE IF endswith(low, <<c_a>>)
            THEN DropLast(ss) \o (IF islower_ch(LastCh(ss)) THEN <<c_i>> ELSE <<upper_ch(c_i)>>)
        ELSE IF endswith(low, <<c_ya>>)
            THEN DropLast(ss) \o (IF islower_ch(LastCh(ss)) THEN <<c_yi>> ELSE <<upper_ch(c_yi)>>)
        ELSE IF endswith(low, <<c_j>>)
            THEN DropLast(ss) \o (IF islower_ch(LastCh(ss)) THEN <<c_yu>> ELSE <<upper_ch(c_yu)>>)
        ELSE IF ~(lower_ch(LastCh(low)) \in VOWELS) \/ endswith(low, <<c_soft>>)
            THEN ss \o (IF islower_ch(LastCh(ss)) THEN <<c_u>> ELSE <<upper_ch(c_u)>>)
        ELSE ss

dative_surname(surname, gen) ==
    LET ss == strip(surname)
        low == lower(ss)
    IN  IF ~Truthy(ss) THEN ss
        ELSE IF endswith(low, <<c_e, c_n, c_k, c_o>>)
            THEN DropLast(ss) \o CaseLike(ss, <<c_u>>, <<upper_ch(c_u)>>)
        ELSE IF endswith(low, <<c_k, c_o>>)
            THEN DropLast(ss) \o CaseLike(ss, <<c_u>>, <<upper_ch(c_u)>>)
        ELSE IF endswith(low, <<c_o>>)
            THEN DropLast(ss) \o CaseLike(ss, <<c_u>>, <<upper_ch(c_u)>>)
        ELSE IF endswith(low, <<c_a>>)
            THEN DropLast(ss) \o CaseLike(ss, <<c_i>>, <<upper_ch(c_i)>>)
        ELSE IF endswith(low, <<c_ya>>)
            THEN DropLast(ss) \o CaseLike(ss, <<c_yi>>, <<upper_ch(c_yi)>>)
        ELSE IF endswith(low, <<c_j>>)
            THEN DropLast(ss) \o CaseLike(ss, <<c_yu>>, <<upper_ch(c_yu)>>)
        ELSE IF low = << >> THEN IndexError
        ELSE IF ~_is_vowel(LastCh(low)) \/ endswith(low, <<c_soft>>)
            THEN ss \o CaseLike(ss, <<c_u>>, upper(<<c_u>>))
        ELSE ss

\* guess_gender_from_patronymic without its "євич" test
guess_gender_from_patronymic_m(pp) ==
    IF ~Truthy(pp) THEN None
    ELSE LET low == lower(pp)
         IN  IF \/ endswith(low, <<c_o, c_v, c_y, c_ch>>)
                \/ endswith(low, <<c_j, c_o, c_v, c_y, c_ch>>)
                \/ endswith(low, <<c_e, c_v, c_y, c_ch>>)
                \/ endswith(low, <<c_l, c_soft, c_o, c_v, c_y, c_ch>>)
                 THEN <<109>>
             ELSE IF \/ endswith(low, <<c_i, c_v, c_n, c_a>>)
                     \/ endswith(low, <<c_yi, c_v, c_n, c_a>>)
                     \/ endswith(low, <<c_e, c_v, c_n, c_a>>)
                     \/ endswith(low, <<c_ye, c_v, c_n, c_a>>)
                 THEN <<102>>
             ELSE None

guess_gender_from_patronymic(pp) ==
    IF ~Truthy(pp) THEN None
    ELSE LET low == lower(pp)
         IN  IF \/ endswith(low, <<c_o, c_v, c_y, c_ch>>)
                \/ endswith(low, <<c_j, c_o, c_v, c_y, c_ch>>)
                \/ endswith(low, <<c_e, c_v, c_y, c_ch>>)
                \/ endswith(low, <<c_l, c_soft, c_o, c_v, c_y, c_ch>>)
                \/ endswith(low, <<c_ye, c_v, c_y, c_ch>>)
                 THEN str_m
             ELSE IF \/ endswith(low, <<c_i, c_v, c_n, c_a>>)
                     \/ endswith(low, <<c_yi, c_v, c_n, c_a>>)
                     \/ endswith(low, <<c_e, c_v, c_n, c_a>>)
                     \/ endswith(low, <<c_ye, c_v, c_n, c_a>>)
                 THEN str_f
             ELSE None

\* split_fullname taking a single token for the surname
split_fullname_m(fullname) ==
    LET parts == SelectSeq(split(strip(fullname)), Truthy)
    IN  IF parts = << >> THEN <<None, None, None>>
        ELSE IF Len(parts) = 1 THEN <<parts[1], None, None>>
        ELSE IF Len(parts) = 2 THEN <<parts[1], parts[2], None>>
        ELSE <<parts[1], parts[2], parts[3]>>

split_fullname(fullname) ==
    LET parts == SelectSeq(split(strip(fullname)), Truthy)
    IN  IF parts = << >> THEN <<None, None, None>>
        ELSE IF Len(parts) = 1 THEN <<None, parts[1], None>>
        ELSE IF Len(parts) = 2 THEN <<parts[1], parts[2], None>>
        ELSE <<parts[1], parts[2], parts[3]>>


\* print(out, s, n, p) on a UTF-8 sys.stdout: the list is written as its repr
\* (which escapes what cannot be encoded), then each of s, n, p as str(x),
\* "None" for None.  A str holding a lone surrogate (U+D800-U+DFFF) cannot be
\* encoded: the write raises UnicodeEncodeError, and what was written before
\* it stays written.
Encodable(x) == x = None \/ \A i \in 1..Len(x) : x[i] \notin 55296..57343

print_items(list, a, b, c) ==
    LET items == <<list, a, b, c>>
        bad == {i \in 2..4 : ~Encodable(items[i])}
    IN  IF bad = {} THEN items ELSE SubSeq(items, 1, SetMin(bad) - 1)

print_raises(list, a, b, c) == ~(Encodable(a) /\ Encodable(b) /\ Encodable(c))

----------------------------------------------------------------------------
(* The arguments the functions are called with *)

MaxShort == 2
MaxStem == 1
MaxTokens == 4

Digit1 == <<49>>             \* "1"
LoneSurrogate == <<55296>>   \* "\ud800"
Tab == <<9>>                 \* "\t"
Newline == <<10>>            \* "\n"

Alpha ==
    {c_a, upper_ch(c_a), c_ya, c_j, c_o, upper_ch(c_o), c_soft, c_e, c_ye,
     c_v, upper_ch(c_v), c_space, Digit1[1], LoneSurrogate[1]}

\* every str of at most MaxShort characters of Alpha
ShortWords == UNION {[1..k -> Alpha] : k \in 0..MaxShort}

\* the endings the rules name, and endings one letter away from them
Endings ==
    { <<c_o, c_v, c_y, c_ch>>, <<c_j, c_o, c_v, c_y, c_ch>>,
      <<c_e, c_v, c_y, c_ch>>, <<c_l, c_soft, c_o, c_v, c_y, c_ch>>,
      <<c_ye, c_v, c_y, c_ch>>,
      <<c_i, c_v, c_n, c_a>>, <<c_yi, c_v, c_n, c_a>>,
      <<c_e, c_v, c_n, c_a>>, <<c_ye, c_v, c_n, c_a>>,
      <<c_e, c_n, c_k, c_o>>, <<c_k, c_o>>,
      <<c_o, c_v, c_n, c_a>>, <<c_i, c_v, c_n, c_ya>>, <<c_v, c_y, c_ch>>,
      <<c_o, c_v, c_i, c_ch>>, <<c_i, c_v, c_n, c_u>>, <<c_l, c_soft>> }

\* an ending in lowercase, in uppercase, capitalized, and with its last
\* letter alone in uppercase
CaseVariants(e) ==
    {e, upper(e), capitalize(e), DropLast(e) \o <<upper_ch(LastCh(e))>>}

Stems == UNION {[1..k -> {c_ya, upper_ch(c_v)}] : k \in 0..MaxStem}

LongWords ==
    {st \o e : st \in Stems, e \in UNION {CaseVariants(x) : x \in Endings}}

Gurov == <<1043, 1091, 1088, 1086, 1074>>                   \* "Гуров"
Denys == <<1044, 1077, 1085, 1080, 1089>>                   \* "Денис"
Serhiiovych ==
    <<1057, 1077, 1088, 1075, 1110, 1081, 1086, 1074, 1080, 1095>>  \* "Сергійович"
Shevchenko == <<1064, 1077, 1074, 1095, 1077, 1085, 1082, 1086>>    \* "Шевченко"
Tetiana == <<1058, 1077, 1090, 1103, 1085, 1072>>           \* "Тетяна"
Ivanivna == <<1030, 1074, 1072, 1085, 1110, 1074, 1085, 1072>>      \* "Іванівна"
Oleksandr ==
    <<1054, 1083, 1077, 1082, 1089, 1072, 1085, 1076, 1088>>        \* "Олександр"
Petrov == <<1087, 1077, 1090, 1088, 1086, 1074>>            \* "петров"

ExampleWords ==
    {Gurov, Denys, Serhiiovych, Shevchenko, Tetiana, Ivanivna, Oleksandr,
     Petrov, upper(Shevchenko), upper(Oleksandr)}

Words == ShortWords \cup LongWords \cup ExampleWords

Genders == {None, str_m, str_f}

\* the tokens full names are built of
TokenPool == {Gurov, Denys, Serhiiovych, Ivanivna, upper(Shevchenko), LoneSurrogate}

\* how the tokens are laid out: what leads, what separates, what trails
Layouts ==
    { [lead |-> << >>, sep |-> <<c_space>>, trail |-> << >>],
      [lead |-> <<c_space>>, sep |-> <<c_space, c_space>>, trail |-> <<c_space>>],
      [lead |-> << >>, sep |-> Tab, trail |-> Newline] }

RECURSIVE joinWith(_, _)
joinWith(list, sep) ==
    IF list = << >> THEN << >>
    ELSE IF Len(list) = 1 THEN list[1]
    ELSE list[1] \o sep \o joinWith(Tail(list), sep)

LaidOut(tokens, lay) == lay.lead \o joinWith(tokens, lay.sep) \o lay.trail

TokenLists == UNION {[1..k -> TokenPool] : k \in 0..MaxTokens}

FullNames ==
    {LaidOut(ts, lay) : ts \in TokenLists, lay \in Layouts}
    \cup ShortWords
    \cup {joinWith(<<Shevchenko, Tetiana, Ivanivna>>, <<c_space>>), Oleksandr}

Functions ==
    {"to_dative_fullname", "split_fullname", "guess_gender_from_patronymic",
     "dative_first_name", "dative_surname", "dative_patronymic"}

ArgsOf(f) ==
    IF f \in {"to_dative_fullname", "split_fullname"} THEN FullNames
    ELSE IF f = "guess_gender_from_patronymic" THEN Words \cup {None}
    ELSE Words

GendersOf(f) ==
    IF f \in {"dative_surname", "dative_patronymic"} THEN Genders ELSE {None}

----------------------------------------------------------------------------
(* The calls *)

Init ==
    /\ pc = "call"
    /\ fn \in Functions
    /\ arg \in ArgsOf(fn)
    /\ garg \in GendersOf(fn)
    /\ s = None
    /\ n = None
    /\ p = None
    /\ gender = None
    /\ out = << >>
    /\ ret = None
    /\ stdout = << >>
    /\ first = None
    /\ mpc = "off"
    /\ HAS_COMPOSER = TRUE
    /\ separate = TRUE
    /\ names = << >>
    /\ gsf_i = 0
    /\ out_dir = << >>
    /\ output = << >>
    /\ pages = 0

\* what a call leaves in pc and ret: the value it returns or the exception
Finish(r) ==
    /\ ret' = r
    /\ pc' = IF r \in Exceptions THEN "raised" ELSE "returned"

call_split_fullname ==
    /\ pc = "call"
    /\ fn = "split_fullname"
    /\ Finish(split_fullname(arg))
    /\ UNCHANGED <<mainvars, first, fn, arg, garg, s, n, p, gender, out, stdout>>

call_guess_gender_from_patronymic ==
    /\ pc = "call"
    /\ fn = "guess_gender_from_patronymic"
    /\ Finish(guess_gender_from_patronymic(arg))
    /\ UNCHANGED <<mainvars, first, fn, arg, garg, s, n, p, gender, out, stdout>>

call_dative_first_name ==
    /\ pc = "call"
    /\ fn = "dative_first_name"
    /\ Finish(dative_first_name(arg))
    /\ UNCHANGED <<mainvars, first, fn, arg, garg, s, n, p, gender, out, stdout>>

call_dative_surname ==
    /\ pc = "call"
    /\ fn = "dative_surname"
    /\ Finish(dative_surname(arg, garg))
    /\ UNCHANGED <<mainvars, first, fn, arg, garg, s, n, p, gender, out, stdout>>

call_dative_patronymic ==
    /\ pc = "call"
    /\ fn = "dative_patronymic"
    /\ Finish(dative_patronymic(arg, garg))
    /\ UNCHANGED <<mainvars, first, fn, arg, garg, s, n, p, gender, out, stdout>>

\* to_dative_fullname, statement by statement

\* s, n, p = split_fullname(fullname)
tdf_split ==
    /\ pc = "call"
    /\ fn = "to_dative_fullname"
    /\ LET t == split_fullname(arg)
       IN  s' = t[1] /\ n' = t[2] /\ p' = t[3]
    /\ pc' = "guess"
    /\ UNCHANGED <<mainvars, first, fn, arg, garg, gender, out, ret, stdout>>

\* gender = guess_gender_from_patronymic(p)
tdf_guess ==
    /\ pc = "guess"
    /\ gender' = guess_gender_from_patronymic(p)
    /\ pc' = "surname"
    /\ UNCHANGED <<mainvars, first, fn, arg, garg, s, n, p, out, ret, stdout>>

\* one "if part: out.append(rule(part))" statement
AppendPart(part, r, next) ==
    IF ~Truthy(part)
        THEN pc' = next /\ UNCHANGED <<out, ret>>
    ELSE IF r \in Exceptions
        THEN pc' = "raised" /\ ret' = r /\ UNCHANGED out
    ELSE pc' = next /\ out' = Append(out, r) /\ UNCHANGED ret

\* if s: out.append(dative_surname(s, gender))
tdf_surname ==
    /\ pc = "surname"
    /\ AppendPart(s, dative_surname(s, gender), "first_name")
    /\ UNCHANGED <<mainvars, first, fn, arg, garg, s, n, p, gender, stdout>>

\* if n: out.append(dative_first_name(n))
tdf_first_name ==
    /\ pc = "first_name"
    /\ AppendPart(n, dative_first_name(n), "patronymic")
    /\ UNCHANGED <<mainvars, first, fn, arg, garg, s, n, p, gender, stdout>>

\* if p: out.append(dative_patronymic(p, gender))
tdf_patronymic ==
    /\ pc = "patronymic"
    /\ AppendPart(p, dative_patronymic(p, gender), "print")
    /\ UNCHANGED <<mainvars, first, fn, arg, garg, s, n, p, gender, stdout>>

\* print(out, s, n, p)
tdf_print ==
    /\ pc = "print"
    /\ stdout' = stdout \o print_items(out, s, n, p)
    /\ IF print_raises(out, s, n, p)
           THEN pc' = "raised" /\ ret' = UnicodeEncodeError
           ELSE pc' = "return" /\ UNCHANGED ret
    /\ UNCHANGED <<mainvars, first, fn, arg, garg, s, n, p, gender, out>>

\* return " ".join(out) if out else fullname
tdf_return ==
    /\ pc = "return"
    /\ ret' = IF out # << >> THEN join(out) ELSE arg
    /\ pc' = "returned"
    /\ UNCHANGED <<mainvars, first, fn, arg, garg, s, n, p, gender, out, stdout>>

Next ==
    \/ call_split_fullname
    \/ call_guess_gender_from_patronymic
    \/ call_dative_first_name
    \/ call_dative_surname
    \/ call_dative_patronymic
    \/ tdf_split
    \/ tdf_guess
    \/ tdf_surname
    \/ tdf_first_name
    \/ tdf_patronymic
    \/ tdf_print
    \/ tdf_return

Spec == Init /\ [][Next]_vars

\* A caller passing the result of to_dative_fullname to to_dative_fullname
\* again: a new call, whose argument is the str the first call returned.
call_again ==
    /\ pc = "returned"
    /\ fn = "to_dative_fullname"
    /\ first = None
    /\ first' = ret
    /\ arg' = ret
    /\ pc' = "call"
    /\ s' = None
    /\ n' = None
    /\ p' = None
    /\ gender' = None
    /\ out' = << >>
    /\ ret' = None
    /\ UNCHANGED <<mainvars, fn, garg, stdout>>

NextTwice == Next \/ call_again

SpecTwice == Init /\ [][NextTwice]_vars

----------------------------------------------------------------------------
(* main in the two modes: generate_separate_files and merge_docx_in_dir *)

\* A document made of the template is modelled by the text that replaces its
\* placeholders, a merged document by the sequence of the documents appended.

MaxNames == 2

out_dir_default == <<111, 117, 116>>      \* "out"
docx_ext == <<46, 100, 111, 99, 120>>     \* ".docx"
os_sep == <<47>>                          \* "/"
underscore == <<95>>                      \* "_"

\* a file of another kind that the directory may hold before the first run
notes_txt == <<110, 46, 116, 120, 116>>   \* "n.txt"

\* the spreadsheet's names: stripped and not empty (read_names_from_excel)
NamePool == {joinWith(<<Gurov, Denys, Serhiiovych>>, <<c_space>>),
             Tetiana,
             LoneSurrogate}
NameLists == UNION {[1..k -> NamePool] : k \in 0..MaxNames}

\* str(k) of a natural number
RECURSIVE str_int(_)
str_int(k) == IF k < 10 THEN <<48 + k>> ELSE str_int(k \div 10) \o <<48 + (k % 10)>>

\* f"{k:03d}": zeros up to the width 3, every digit of a longer number
format_03d(k) ==
    LET d == str_int(k)
    IN  [j \in 1..(IF Len(d) < 3 THEN 3 - Len(d) ELSE 0) |-> 48] \o d

\* label = s or (n or f"{i}") with s, n, p = split_fullname(person)
label(k, person) ==
    LET t == split_fullname(person)
    IN  IF Truthy(t[1]) THEN t[1] ELSE IF Truthy(t[2]) THEN t[2] ELSE str_int(k)

\* fname = f"{i:03d}_{label}.docx"
fname(k, person) == format_03d(k) \o underscore \o label(k, person) \o docx_ext

os_path_join(dir, f) == dir \o os_sep \o f

basename(dir, path) == SubSeq(path, Len(dir) + Len(os_sep) + 1, Len(path))

\* a < b of two str: by code points, a proper prefix first
RECURSIVE str_lt(_, _)
str_lt(a, b) ==
    IF b = << >> THEN FALSE
    ELSE IF a = << >> THEN TRUE
    ELSE IF a[1] # b[1] THEN a[1] < b[1]
    ELSE str_lt(Tail(a), Tail(b))

\* sorted(list) of a list of distinct str
RECURSIVE sorted(_)
sorted(S) ==
    IF S = {} THEN << >>
    ELSE LET m == CHOOSE x \in S : \A y \in S \ {x} : str_lt(x, y)
         IN  <<m>> \o sorted(S \ {m})

\* doc.save(out_path): the file is created or overwritten
save(dir, f, doc) ==
    [g \in DOMAIN dir \cup {f} |-> IF g = f THEN doc ELSE dir[g]]

\* the list merge_docx_in_dir sorts
docx_files(dir) ==
    sorted({os_path_join(out_dir_default, f) :
                f \in {g \in DOMAIN dir : endswith(lower(g), docx_ext)}})

InitMain ==
    /\ pc = "off"
    /\ fn = "to_dative_fullname"
    /\ arg = None
    /\ garg = None
    /\ s = None
    /\ n = None
    /\ p = None
    /\ gender = None
    /\ out = << >>
    /\ ret = None
    /\ stdout = << >>
    /\ first = None
    /\ mpc = "start"
    /\ HAS_COMPOSER \in BOOLEAN
    /\ separate = TRUE
    /\ names = << >>
    /\ gsf_i = 0
    /\ out_dir \in {<< >>, [f \in {notes_txt} |-> << >>]}
    /\ output = << >>
    /\ pages = 0

\* main up to the loop of generate_separate_files, in a new process: the
\* arguments are parsed, the names are read, and without names it returns 1.
\* The files of the directory and the document at args.output are those the
\* runs before left.
main_start ==
    /\ mpc \in {"start", "return 0", "return 1", "raised"}
    /\ \E nm \in NameLists, sep \in BOOLEAN :
           /\ names' = nm
           /\ separate' = sep
           /\ mpc' = IF nm = << >> THEN "return 1" ELSE "generate"
           /\ gsf_i' = IF nm = << >> THEN 0 ELSE 1
    /\ pages' = 0
    /\ stdout' = << >>
    /\ pc' = "off"
    /\ arg' = None
    /\ s' = None
    /\ n' = None
    /\ p' = None
    /\ gender' = None
    /\ out' = << >>
    /\ ret' = None
    /\ UNCHANGED <<fn, garg, first, HAS_COMPOSER, out_dir, output>>

\* for i, person in enumerate(names, 1): ... repl = to_dative_fullname(person)
gsf_call ==
    /\ mpc = "generate"
    /\ gsf_i <= Len(names)
    /\ mpc' = "in_call"
    /\ arg' = names[gsf_i]
    /\ pc' = "call"
    /\ s' = None
    /\ n' = None
    /\ p' = None
    /\ gender' = None
    /\ out' = << >>
    /\ ret' = None
    /\ UNCHANGED <<fn, garg, first, stdout>>
    /\ UNCHANGED <<HAS_COMPOSER, separate, names, gsf_i, out_dir, output, pages>>

\* to_dative_fullname returned repl: the placeholders are replaced and the
\* document is saved as fname in out_dir
gsf_save ==
    /\ mpc = "in_call"
    /\ pc = "returned"
    /\ out_dir' = save(out_dir, fname(gsf_i, names[gsf_i]), ret)
    /\ gsf_i' = gsf_i + 1
    /\ mpc' = "generate"
    /\ pc' = "off"
    /\ UNCHANGED <<fn, arg, garg, s, n, p, gender, out, ret, stdout, first>>
    /\ UNCHANGED <<HAS_COMPOSER, separate, names, output, pages>>

\* to_dative_fullname raised: nothing catches the exception, main ends with it
gsf_raise ==
    /\ mpc = "in_call"
    /\ pc = "raised"
    /\ mpc' = "raised"
    /\ pc' = "off"
    /\ UNCHANGED <<fn, arg, garg, s, n, p, gender, out, ret, stdout, first>>
    /\ UNCHANGED <<HAS_COMPOSER, separate, names, gsf_i, out_dir, output, pages>>

\* the loop is over: main returns 0 if args.separate, else it goes on to merge
gsf_end ==
    /\ mpc = "generate"
    /\ gsf_i > Len(names)
    /\ mpc' = IF separate THEN "return 0" ELSE "merge"
    /\ UNCHANGED <<pc, fn, arg, garg, s, n, p, gender, out, ret, stdout, first>>
    /\ UNCHANGED <<HAS_COMPOSER, separate, names, gsf_i, out_dir, output, pages>>

\* merge_docx_in_dir(args.out_dir, args.output) in the try of main: its
\* ValueError and RuntimeError are caught and main returns 1, else the files
\* are composed in the sorted order, the page count is printed, main returns 0
main_merge ==
    /\ mpc = "merge"
    /\ LET files == docx_files(out_dir)
       IN  IF files = << >> \/ ~HAS_COMPOSER
               THEN mpc' = "return 1" /\ UNCHANGED <<output, pages>>
               ELSE /\ output' = [k \in 1..Len(files) |->
                                     out_dir[basename(out_dir_default, files[k])]]
                    /\ pages' = Len(names)
                    /\ mpc' = "return 0"
    /\ UNCHANGED <<pc, fn, arg, garg, s, n, p, gender, out, ret, stdout, first>>
    /\ UNCHANGED <<HAS_COMPOSER, separate, names, gsf_i, out_dir>>

NextMain ==
    \/ main_start
    \/ gsf_call
    \/ tdf_split
    \/ tdf_guess
    \/ tdf_surname
    \/ tdf_first_name
    \/ tdf_patronymic
    \/ tdf_print
    \/ tdf_return
    \/ gsf_save
    \/ gsf_raise
    \/ gsf_end
    \/ main_merge

SpecMain == InitMain /\ [][NextMain]_vars

----------------------------------------------------------------------------
(* Vocabulary of the properties *)

Returned(f) == pc = "returned" /\ fn = f

\* a str: neither None nor an exception
IsStr(x) == \A i \in 1..Len(x) : x[i] >= 0

\* a word: a non-empty str without whitespace, as split_fullname hands them
\* to the rules
IsWord(x) == IsStr(x) /\ x # << >> /\ \A i \in 1..Len(x) : ~isspace_ch(x[i])

\* the whitespace-delimited tokens of a str
Tokens(str) == split(str)

\* the ten vowel letters, in either case
IsVowelLetter(c) ==
    \E v \in {c_a, c_e, c_ye, c_y, c_i, c_yi, c_o, c_u, c_yu, c_ya} :
        c = v \/ c = upper_ch(v)

\* str ends in the letters of suf, in either case
EndsIn(str, suf) ==
    /\ Len(str) >= Len(suf)
    /\ \A i \in 1..Len(suf) :
           LET c == str[Len(str) - Len(suf) + i]
           IN  c = suf[i] \/ c = upper_ch(suf[i])

MasculineSuffixes ==
    { <<c_o, c_v, c_y, c_ch>>, <<c_j, c_o, c_v, c_y, c_ch>>,
      <<c_e, c_v, c_y, c_ch>>, <<c_l, c_soft, c_o, c_v, c_y, c_ch>>,
      <<c_ye, c_v, c_y, c_ch>> }

FeminineSuffixes ==
    { <<c_i, c_v, c_n, c_a>>, <<c_yi, c_v, c_n, c_a>>,
      <<c_e, c_v, c_n, c_a>>, <<c_ye, c_v, c_n, c_a>> }

HasMasculineSuffix(w) == \E x \in MasculineSuffixes : EndsIn(w, x)

HasFeminineSuffix(w) == \E x \in FeminineSuffixes : EndsIn(w, x)

\* the suffix suf in the case of the last character of w: as written after
\* a lowercase letter, with its first letter in uppercase otherwise
Mirrored(w, suf) ==
    IF islower_ch(w[Len(w)]) THEN suf
    ELSE <<upper_ch(suf[1])>> \o SubSeq(suf, 2, Len(suf))

Replaced(w, suf) == SubSeq(w, 1, Len(w) - 1) \o Mirrored(w, suf)

Appended(w, suf) == w \o Mirrored(w, suf)

GurovDenysSerhiiovych == joinWith(<<Gurov, Denys, Serhiiovych>>, <<c_space>>)

----------------------------------------------------------------------------
(* C1 *)

\* C1: to_dative_fullname("Гуров Денис Сергійович") returns exactly
\* "Гурову Денису Сергійовичу".
C1_GurovDenysu ==
    (Returned("to_dative_fullname") /\ arg = GurovDenysSerhiiovych)
        => ret = joinWith(<<Gurov \o <<c_u>>, Denys \o <<c_u>>,
                            Serhiiovych \o <<c_u>>>>, <<c_space>>)

----------------------------------------------------------------------------
(* C2 *)

\* C2: every call of the six functions on a str terminates without raising;
\* to_dative_fullname, dative_first_name, dative_surname and
\* dative_patronymic return a str, and to_dative_fullname("") returns "".
C2_Total ==
    /\ pc # "raised"
    /\ (pc = "returned" /\ fn \in {"to_dative_fullname", "dative_first_name",
                                   "dative_surname", "dative_patronymic"})
           => IsStr(ret)
    /\ (Returned("to_dative_fullname") /\ arg = << >>) => ret = << >>

----------------------------------------------------------------------------
(* C3 *)

\* the parts of a full name that are present, inflected, in the order
\* surname, given name, patronymic
C3_Parts(fullname) ==
    LET t == split_fullname(fullname)
        g == guess_gender_from_patronymic(t[3])
    IN  (IF Truthy(t[1]) THEN <<dative_surname(t[1], g)>> ELSE << >>)
        \o (IF Truthy(t[2]) THEN <<dative_first_name(t[2])>> ELSE << >>)
        \o (IF Truthy(t[3]) THEN <<dative_patronymic(t[3], g)>> ELSE << >>)

\* C3: for every input, also one without any token, the result of
\* to_dative_fullname is the inflected present parts joined by single
\* spaces, so it has no leading or trailing whitespace and no two adjacent
\* spaces.
C3_JoinedParts ==
    Returned("to_dative_fullname") =>
        /\ ret = joinWith(C3_Parts(arg), <<c_space>>)
        /\ ret # << >> => ~isspace_ch(ret[1]) /\ ~isspace_ch(ret[Len(ret)])
        /\ \A i \in 1..(Len(ret) - 1) : ~(ret[i] = c_space /\ ret[i + 1] = c_space)

----------------------------------------------------------------------------
(* C4 *)

\* C4: a call of to_dative_fullname writes nothing to any output stream:
\* no step of it changes sys.stdout.
C4_NoOutput == [][stdout' = stdout]_vars

----------------------------------------------------------------------------
(* C5 *)

C5_NoSuffix(w) == ~HasMasculineSuffix(w) /\ ~HasFeminineSuffix(w)

\* C5 as stated: a patronymic ending in none of the masculine and feminine
\* suffixes, with no gender hint, is classified unknown by
\* guess_gender_from_patronymic and returned unchanged by dative_patronymic.
C5_Unchanged ==
    /\ (Returned("guess_gender_from_patronymic") /\ arg # None /\ C5_NoSuffix(arg))
           => ret = None
    /\ (Returned("dative_patronymic") /\ garg = None /\ C5_NoSuffix(arg))
           => ret = arg

\* C5 as amended: such a patronymic is classified unknown, and
\* dative_patronymic returns it unchanged when it is empty or ends in a
\* vowel, and with "у" appended (in the case of its last character) when it
\* ends in any other character.
C5_UnchangedAfterVowel ==
    /\ (Returned("guess_gender_from_patronymic") /\ arg # None /\ C5_NoSuffix(arg))
           => ret = None
    /\ (Returned("dative_patronymic") /\ garg = None /\ C5_NoSuffix(arg))
           => ret = IF arg = << >> \/ IsVowelLetter(arg[Len(arg)])
                        THEN arg
                        ELSE Appended(arg, <<c_u>>)

\* "петров", no gender hint: "петрову"
C5_Witness ==
    /\ Returned("dative_patronymic")
    /\ garg = None
    /\ arg = Petrov
    /\ C5_NoSuffix(arg)
    /\ ret = Petrov \o <<c_u>>

----------------------------------------------------------------------------
(* C6 *)

RuleFunctions == {"dative_first_name", "dative_surname", "dative_patronymic"}

\* the suffixes the three rules append or substitute, in lowercase
C6_Suffixes == { <<c_i>>, <<c_yi>>, <<c_yu>>, <<c_u>>, <<c_o, c_v, c_i>> }

C6_Capitalized(suf) == <<upper_ch(suf[1])>> \o SubSeq(suf, 2, Len(suf))

C6_AllLowercase(w) == \A i \in 1..Len(w) : islower_ch(w[i])

\* result is w, or w without its last character, followed by suf
C6_Received(w, result, suf) ==
    result = w \o suf \/ result = SubSeq(w, 1, Len(w) - 1) \o suf

\* C6: whenever one of the three rules changes a word, a word whose last
\* character is lowercase (so every all-lowercase word) received the suffix
\* in lowercase and a word whose last character is uppercase received the
\* capitalized suffix, whatever the case of the other characters.
C6_CasePreserved ==
    (pc = "returned" /\ fn \in RuleFunctions /\ IsWord(arg) /\ ret # arg) =>
        /\ C6_AllLowercase(arg) =>
               \E suf \in C6_Suffixes : C6_Received(arg, ret, suf)
        /\ islower_ch(arg[Len(arg)]) =>
               \E suf \in C6_Suffixes : C6_Received(arg, ret, suf)
        /\ isupper_ch(arg[Len(arg)]) =>
               \E suf \in C6_Suffixes : C6_Received(arg, ret, C6_Capitalized(suf))

\* "яВ", uppercase only in its last letter: "яВОві"
C6_Witness ==
    /\ Returned("dative_first_name")
    /\ arg = <<c_ya, upper_ch(c_v)>>
    /\ ret = <<c_ya, upper_ch(c_v), upper_ch(c_o), c_v, c_i>>

----------------------------------------------------------------------------
(* C7 *)

C7_Triple(str) ==
    LET t == Tokens(str)
        k == Len(t)
    IN  IF k = 0 THEN <<None, None, None>>
        ELSE IF k = 1 THEN <<None, t[1], None>>
        ELSE IF k = 2 THEN <<t[1], t[2], None>>
        ELSE <<t[1], t[2], t[3]>>

\* C7: split_fullname maps the tokens t1..tk of its input to (None, None,
\* None) for k = 0, (None, t1, None) for k = 1, (t1, t2, None) for k = 2 and
\* (t1, t2, t3) for k >= 3; the result of to_dative_fullname for an input of
\* k >= 1 tokens has min(k, 3) words.
C7_SplitByTokens ==
    /\ Returned("split_fullname") => ret = C7_Triple(arg)
    /\ (Returned("to_dative_fullname") /\ Len(Tokens(arg)) >= 1) =>
           Len(Tokens(ret)) = IF Len(Tokens(arg)) < 3 THEN Len(Tokens(arg)) ELSE 3

\* four tokens: the fourth is discarded
C7_Witness ==
    /\ Returned("split_fullname")
    /\ Len(Tokens(arg)) = 4
    /\ Tokens(arg)[4] # Tokens(arg)[3]
    /\ ret = SubSeq(Tokens(arg), 1, 3)

----------------------------------------------------------------------------
(* C8 *)

\* "consonant, soft sign or й" of the rules: a final character that is not
\* one of the ten vowels
NotVowelEnding(w) == ~IsVowelLetter(w[Len(w)])

C8_Steps(w, g) ==
    IF HasMasculineSuffix(w) THEN Appended(w, <<c_u>>)
    ELSE IF HasFeminineSuffix(w) THEN Replaced(w, <<c_i>>)
    ELSE IF g = str_f
        THEN IF EndsIn(w, <<c_a>>) THEN Replaced(w, <<c_i>>)
             ELSE IF EndsIn(w, <<c_ya>>) THEN Replaced(w, <<c_yi>>)
             ELSE w
    ELSE IF NotVowelEnding(w) THEN Appended(w, <<c_u>>)
    ELSE w

\* C8: dative_patronymic applies to a non-empty word the first matching of:
\* masculine suffix, append "у"; feminine suffix, last letter becomes "і";
\* gender feminine, final "а" becomes "і", final "я" becomes "ї", else
\* unchanged; otherwise append "у" after a consonant, "ь" or "й", else
\* unchanged.  "Іванівна" gives "Іванівні", "Сергійович" "Сергійовичу".
C8_PatronymicSteps ==
    Returned("dative_patronymic") =>
        /\ arg # << >> => ret = C8_Steps(arg, garg)
        /\ arg = Ivanivna =>
               ret = <<1030, 1074, 1072, 1085, 1110, 1074, 1085, 1110>>
        /\ arg = Serhiiovych => ret = Serhiiovych \o <<c_u>>

\* step 3: feminine gender, no suffix of either list, final "я"
C8_Witness ==
    /\ Returned("dative_patronymic")
    /\ garg = str_f
    /\ arg = <<upper_ch(c_v), c_ya>>
    /\ ret = <<upper_ch(c_v), c_yi>>

----------------------------------------------------------------------------
(* C9 *)

C9_Rows(w) ==
    IF EndsIn(w, <<c_a>>) THEN Replaced(w, <<c_i>>)
    ELSE IF EndsIn(w, <<c_ya>>) THEN Replaced(w, <<c_yi>>)
    ELSE IF EndsIn(w, <<c_j>>) THEN Replaced(w, <<c_yu>>)
    ELSE IF EndsIn(w, <<c_o>>) THEN Replaced(w, <<c_o, c_v, c_i>>)
    ELSE IF NotVowelEnding(w) THEN Appended(w, <<c_o, c_v, c_i>>)
    ELSE w

----------------------------------------------------------------------------
(* C10 *)

C10_Rows(w) ==
    IF EndsIn(w, <<c_e, c_n, c_k, c_o>>) THEN Replaced(w, <<c_u>>)
    ELSE IF EndsIn(w, <<c_k, c_o>>) THEN Replaced(w, <<c_u>>)
    ELSE IF EndsIn(w, <<c_o>>) THEN Replaced(w, <<c_u>>)
    ELSE IF EndsIn(w, <<c_a>>) THEN Replaced(w, <<c_i>>)
    ELSE IF EndsIn(w, <<c_ya>>) THEN Replaced(w, <<c_yi>>)
    ELSE IF EndsIn(w, <<c_j>>) THEN Replaced(w, <<c_yu>>)
    ELSE IF NotVowelEnding(w) THEN Appended(w, <<c_u>>)
    ELSE w

\* C10: dative_surname applies to a word, whatever the gender argument, the
\* first matching row: "енко", "ко", "о": final "о" to "у"; "а" to "і"; "я" to
\* "ї"; "й" to "ю"; "у" appended after any other consonant or "ь"; unchanged
\* after any other vowel.  "Шевченко" gives "Шевченку", "Гуров" "Гурову".
C10_SurnameRows ==
    Returned("dative_surname") =>
        /\ IsWord(arg) => ret = C10_Rows(arg)
        /\ arg = Shevchenko =>
               ret = <<1064, 1077, 1074, 1095, 1077, 1085, 1082, 1091>>
        /\ arg = Gurov => ret = <<1043, 1091, 1088, 1086, 1074, 1091>>

\* "ШЕВЧЕНКО" with the feminine gender argument: "ШЕВЧЕНКУ"
C10_Witness ==
    /\ Returned("dative_surname")
    /\ garg = str_f
    /\ arg = upper(Shevchenko)
    /\ ret = SubSeq(upper(Shevchenko), 1, 7) \o <<upper_ch(c_u)>>

----------------------------------------------------------------------------
(* C11 *)

\* the classification of a patronymic by its ending alone
C11_Class(x) ==
    IF x = None \/ x = << >> THEN None
    ELSE IF HasMasculineSuffix(x) THEN str_m
    ELSE IF HasFeminineSuffix(x) THEN str_f
    ELSE None

\* C11: guess_gender_from_patronymic returns masculine exactly when the
\* lowercased patronymic ends in a masculine suffix, otherwise feminine
\* exactly when it ends in a feminine suffix, otherwise unknown, and unknown
\* for None and ""; no patronymic has a suffix of both lists, and the
\* classification is that of the argument alone, called directly or from
\* to_dative_fullname.
C11_GenderBySuffix ==
    /\ Returned("guess_gender_from_patronymic") =>
           /\ ret = C11_Class(arg)
           /\ arg # None => ~(HasMasculineSuffix(arg) /\ HasFeminineSuffix(arg))
    /\ (fn = "to_dative_fullname"
           /\ pc \in {"surname", "first_name", "patronymic", "print", "return"})
           => gender = C11_Class(p)

\* "ВЄВИЧ", in uppercase: masculine
C11_Witness ==
    /\ Returned("guess_gender_from_patronymic")
    /\ arg = upper(<<c_v, c_ye, c_v, c_y, c_ch>>)
    /\ ret = str_m

----------------------------------------------------------------------------
(* C12 *)

\* C12: to_dative_fullname is idempotent: called on a result it returned, it
\* returns (it raises nothing) and returns that result unchanged.  It is so
\* rule by rule: a surname, a given name and a patronymic (under the gender
\* inferred from it) that a rule returned are returned unchanged by the same
\* rule, the patronymic under the gender inferred from its inflected form.
C12_Idempotent ==
    /\ (fn = "to_dative_fullname" /\ first # None) => pc # "raised"
    /\ (Returned("to_dative_fullname") /\ first # None) => ret = first
    /\ Returned("dative_surname") =>
           \A g \in Genders : dative_surname(ret, g) = ret
    /\ Returned("dative_first_name") => dative_first_name(ret) = ret
    /\ (Returned("dative_patronymic")
           /\ garg = guess_gender_from_patronymic(arg)) =>
           dative_patronymic(ret, guess_gender_from_patronymic(ret)) = ret

\* the second call, on "Гурову Денисові Сергійовичу"
C12_Witness ==
    /\ Returned("to_dative_fullname")
    /\ first = joinWith(<<Gurov \o <<c_u>>, Denys \o <<c_o, c_v, c_i>>,
                          Serhiiovych \o <<c_u>>>>, <<c_space>>)
    /\ ret = first
    /\ Len(stdout) = 8

----------------------------------------------------------------------------
(* C13 *)

\* C13: when main returns 0 in single-file mode, the merged document is made
\* of exactly the documents this run saved, one per name and in the order of
\* the names, and their number is the page count it prints.
C13_MergedThisRun ==
    (mpc = "return 0" /\ ~separate) =>
        /\ output = [k \in 1..Len(names) |-> out_dir[fname(k, names[k])]]
        /\ pages = Len(output)

=============================================================================
